---- MODULE Spec2Model ----
(***************************************************************************)
(* Model of the bulk-loading and benchmarking harness of                   *)
(* mongodb-postgres-comparison:                                            *)
(*   - MongoDBImporter.connect / PostgresImporter.connect  (SpecConnect)   *)
(*   - MongoDBImporter.bulk_insert_documents               (SpecLoad)      *)
(*   - DatabaseBenchmark.execute_query_with_stats          (SpecBench)     *)
(*   - DatabaseBenchmark._generate_findings                (SpecFindings)  *)
(* Each component is a sequential routine; it has its own specification    *)
(* over the shared variable list, the other components staying idle.       *)
(***************************************************************************)
EXTENDS Integers, Sequences, FiniteSets, TLC

\* ------------------------------------------------------------------ bounds
\* connect calls made on one importer (create_database makes two)
MaxCalls == 2
\* length of the document list handed to bulk_insert_documents
MaxDocs == 4
\* largest tweet_id of a document
MaxDocId == 2
\* largest batch_size
MaxBatch == 3
\* largest self.iterations of a benchmark
MaxIterations == 3
\* longest run of the benchmarked operation, in clock ticks
MaxDuration == 2
\* largest mean of a QueryResult handed to _generate_findings, in clock ticks
MaxMean == 11
\* length of the document list the MongoDB main() prepares from the CSV
MaxMainDocs == 3
\* pages of BATCH_SIZE rows the PostgreSQL main() sends in each insert
MaxPages == 2
\* largest mean of a QueryResult in a run of the benchmark main()
MaxMainMean == 2
\* rows of the deduplicated dataset of the preprocessing
MaxRows == 6

\* ------------------------------------------------------------- python bits
\* None, where the other values are positive integers (object ids, tweet ids)
None == 0
\* no tuple returned
NoResult == <<>>
NoError == "no_error"

RECURSIVE Pow2(_)
\* 2 ** k for k >= 0
Pow2(k) == IF k <= 0 THEN 1 ELSE 2 * Pow2(k - 1)

VARIABLES
    \* ---- connect (mongodb-script.py 31-46, postgres-script.py 31-45)
    c_kind,      \* which importer: "mongo" or "postgres"
    c_pc,        \* "idle" | "try" | "sleep" | "returned" | "raised"
    attempt,     \* the loop variable of `for attempt in range(max_retries)`
    c_tries,     \* connection attempts made by the current call
    c_waits,     \* the time.sleep arguments of the current call, in order
    c_errs,      \* the exceptions of the failed attempts of the current call
    c_raised,    \* the exception connect propagated, or NoError
    c_fields,    \* the importer's handle fields (object ids, or None)
    c_before,    \* the handle fields when the current call started
    c_open,      \* ids of the client/connection objects that are not closed
    c_next,      \* id of the next object a driver constructor creates
    c_calls      \* connect calls started so far

connVars == <<c_kind, c_pc, attempt, c_tries, c_waits, c_errs, c_raised,
              c_fields, c_before, c_open, c_next, c_calls>>

VARIABLES
    \* ---- bulk_insert_documents (mongodb-script.py 124-164)
    documents,        \* the argument: a list of documents, some of them None
    batch_size,       \* the argument batch_size
    l_pc,             \* "idle" | "loop" | "returned" | "raised"
    operations,       \* [InsertOne(doc) for doc in valid_documents]
    i,                \* the loop variable of range(0, len(operations), batch_size)
    total_inserted,
    failed_inserts,
    l_calls,          \* the batches handed to collection.bulk_write, in order
    l_outcomes,       \* what the backend answered to each of them
    l_result,         \* the returned tuple, or NoResult
    l_error,          \* the exception the call propagated, or NoError
    collection        \* the documents the backend has stored, in order

loadVars == <<documents, batch_size, l_pc, operations, i, total_inserted,
              failed_inserts, l_calls, l_outcomes, l_result, l_error,
              collection>>

VARIABLES
    \* ---- execute_query_with_stats (comparisons.py 59-80)
    iterations,       \* self.iterations
    b_pc,             \* "idle" | "iter" | "invoke" | "cooldown" | "summarize"
                      \* | "returned" | "raised"
    b_i,              \* the loop variable of range(self.iterations)
    now,              \* the wall clock read by time.time()
    start_time,
    execution_times,
    b_begin,          \* the clock at the start of each query_func() call
    b_end,            \* the clock at the end of each query_func() call
    b_result,         \* <<the QueryResult returned>>, or NoResult
    b_error           \* the exception the call propagated, or NoError

benchVars == <<iterations, b_pc, b_i, now, start_time, execution_times,
               b_begin, b_end, b_result, b_error>>

VARIABLES
    \* ---- _generate_findings (comparisons.py 420-440)
    results,          \* the argument: per category, the tests with their means
    f_pc,             \* "idle" | "returned" | "raised"
    findings,         \* the returned list
    f_error           \* the exception the call propagated, or NoError

findVars == <<results, f_pc, findings, f_error>>

VARIABLES
    \* ---- the three main() functions (mongodb-script.py 166-236,
    \*      postgres-script.py 249-335, comparisons.py 448-466)
    m_prog,           \* which script runs: "mongo" | "postgres" | "bench" | "none"
    m_pc,             \* the statement main() is at; "exit" when it has ended
    m_bound,          \* whether the local `importer` / `benchmark` is bound
    m_orig,           \* the exception that left the try body, or NoError
    m_error,          \* the exception main() propagates, or NoError
    h_closed,         \* the driver objects close() was called on, in order
    report_written,   \* whether ./json/benchmark_report.json was written
    p_pages,          \* pages of BATCH_SIZE rows the CSV makes
    p_log             \* the pages execute_values sent, with their outcome

mainVars == <<m_prog, m_pc, m_bound, m_orig, m_error, h_closed,
              report_written, p_pages, p_log>>

VARIABLES
    \* ---- pre-processing-script.py main(), lines 149-166
    rows,             \* the ids of the rows of df after handle_duplicates
    chunks,           \* np.array_split(df, ...): the chunks, in order
    pr_pc,            \* "idle" | "submit" | "collect" | "done" | "raised"
    status,           \* per chunk: "unsubmitted" | "running" | "ok" | "failed"
    pr_j,             \* the AsyncResult the list comprehension is at
    pr_results,       \* `results`: the chunks r.get() returned, None left out
    pr_df,            \* pd.concat(results, ignore_index=True)
    pr_error          \* the exception main() ends with, or NoError

preVars == <<rows, chunks, pr_pc, status, pr_j, pr_results, pr_df, pr_error>>

vars == <<connVars, loadVars, benchVars, findVars, mainVars, preVars>>

\* what a step of one component leaves alone
ConnFrame == UNCHANGED <<loadVars, benchVars, findVars, mainVars, preVars>>
LoadFrame == UNCHANGED <<connVars, benchVars, findVars, mainVars, preVars>>
BenchFrame == UNCHANGED <<connVars, loadVars, findVars, mainVars, preVars>>
FindFrame == UNCHANGED <<connVars, loadVars, benchVars, mainVars, preVars>>

RECURSIVE Concat(_)
\* pd.concat of a list of frames: their rows, frame after frame
Concat(frames) ==
    IF frames = <<>> THEN <<>> ELSE Head(frames) \o Concat(Tail(frames))

\* =================================================================== connect
ImporterKinds == {"mongo", "postgres"}

\* exceptions a driver raises while connecting
ConnErrors == {"timeout", "auth"}

\* where an attempt fails: in the driver constructor (no object is bound to
\* the importer), or in a call made on the freshly bound object
\* (client.server_info() / conn.cursor())
FailStages == {"ctor", "use"}

NoFields == [client |-> None, db |-> None, collection |-> None,
             conn |-> None, cursor |-> None]

max_retries == 3

\* `if attempt == max_retries - 1: raise`
IsLastAttemptOff(a) == a = max_retries - 2
IsLastAttempt(a) == a = max_retries - 1

\* `time.sleep(2 ** attempt)`
BackoffDelayOff(a) == 2 * a
BackoffDelay(a) == Pow2(a)

\* the bare `raise` of the except clause: the exception being handled (caught)
\* leaves connect as it is; the exceptions of the earlier attempts are gone
ReraiseOff(caught, earlier) == "ConnectionError"
Reraise(caught, earlier) == caught

\* the assignments of a successful try body
FieldsOnSuccess(kind, f, id) ==
    IF kind = "mongo"
    THEN [f EXCEPT !.client = id, !.db = id, !.collection = id]
    ELSE [f EXCEPT !.conn = id, !.cursor = id]

\* the assignments a try body has made when it raises at `stage`
FieldsOnFailure(kind, f, id, stage) ==
    IF stage = "ctor" THEN f
    ELSE IF kind = "mongo" THEN [f EXCEPT !.client = id]
    ELSE [f EXCEPT !.conn = id]

ConnInit ==
    /\ c_kind \in ImporterKinds
    /\ c_pc = "idle"
    /\ attempt = 0
    /\ c_tries = 0
    /\ c_waits = <<>>
    /\ c_errs = <<>>
    /\ c_raised = NoError
    /\ c_fields = NoFields
    /\ c_before = NoFields
    /\ c_open = {}
    /\ c_next = 1
    /\ c_calls = 0

\* the importer's connect() is called; range(max_retries) yields attempt 0
ConnectCall ==
    /\ ConnFrame
    /\ c_pc \in {"idle", "returned", "raised"}
    /\ c_calls < MaxCalls
    /\ c_calls' = c_calls + 1
    /\ c_pc' = IF max_retries > 0 THEN "try" ELSE "returned"
    /\ attempt' = 0
    /\ c_tries' = 0
    /\ c_waits' = <<>>
    /\ c_errs' = <<>>
    /\ c_raised' = NoError
    /\ c_before' = c_fields
    /\ UNCHANGED <<c_kind, c_fields, c_open, c_next>>

\* the try body runs to `return`
AttemptSucceeds ==
    /\ ConnFrame
    /\ c_pc = "try"
    /\ c_tries' = c_tries + 1
    /\ c_fields' = FieldsOnSuccess(c_kind, c_fields, c_next)
    /\ c_open' = c_open \cup {c_next}
    /\ c_next' = c_next + 1
    /\ c_pc' = "returned"
    /\ UNCHANGED <<c_kind, attempt, c_waits, c_errs, c_raised, c_before, c_calls>>

\* the try body raises e at `stage`; the except clause logs, then re-raises
\* on the last attempt or starts the backoff sleep
AttemptFails ==
    /\ ConnFrame
    /\ c_pc = "try"
    /\ \E e \in ConnErrors, stage \in FailStages :
        /\ c_tries' = c_tries + 1
        /\ c_fields' = FieldsOnFailure(c_kind, c_fields, c_next, stage)
        /\ c_open' = IF stage = "ctor" THEN c_open ELSE c_open \cup {c_next}
        /\ c_next' = IF stage = "ctor" THEN c_next ELSE c_next + 1
        /\ c_errs' = Append(c_errs, e)
        /\ IF IsLastAttempt(attempt)
           THEN c_pc' = "raised" /\ c_raised' = Reraise(e, c_errs)
           ELSE c_pc' = "sleep" /\ c_raised' = c_raised
    /\ UNCHANGED <<c_kind, attempt, c_waits, c_before, c_calls>>

\* time.sleep(2 ** attempt) returns; the for loop takes its next value, or
\* ends (connect then returns None without a connection)
SleepDone ==
    /\ ConnFrame
    /\ c_pc = "sleep"
    /\ c_waits' = Append(c_waits, BackoffDelay(attempt))
    /\ attempt' = attempt + 1
    /\ c_pc' = IF attempt + 1 < max_retries THEN "try" ELSE "returned"
    /\ UNCHANGED <<c_kind, c_tries, c_errs, c_raised, c_fields, c_before,
                   c_open, c_next, c_calls>>

ConnNext == ConnectCall \/ AttemptSucceeds \/ AttemptFails \/ SleepDone

\* ===================================================== bulk_insert_documents
Min(a, b) == IF a < b THEN a ELSE b

\* a prepared document is its tweet_id; prepare_document returns None for a
\* row without one
DocValues == (1..MaxDocId) \cup {None}

RECURSIVE SeqsUpTo(_, _)
\* all sequences over S of length at most n
SeqsUpTo(S, n) ==
    IF n = 0 THEN {<<>>}
    ELSE LET shorter == SeqsUpTo(S, n - 1)
         IN  shorter \cup {Append(q, x) : q \in {r \in shorter : Len(r) = n - 1}, x \in S}

\* batch_size is an unchecked int argument
BatchSizes == (-1)..MaxBatch

\* errors of bulk_write other than BulkWriteError
WriteErrors == {"AutoReconnect", "OperationFailure"}

\* `[doc for doc in documents if doc is not None]`
ValidDocumentsOff(docs) == docs
ValidDocuments(docs) == SelectSeq(docs, LAMBDA d : d # None)

\* python floor division a // b, b # 0
FloorDiv(a, b) == IF b > 0 THEN a \div b ELSE (-a) \div (-b)

\* `(total_documents + batch_size - 1) // batch_size`
TotalBatches(n, b) == FloorDiv(n + b - 1, b)

\* whether range(0, n, step) still yields the value k (step # 0)
InRangeOff(k, n, step) == step > 0 /\ k <= n
InRange(k, n, step) == step > 0 /\ k < n

\* `operations[i:i + batch_size]`, batch_size > 0
BatchOff(ops, k, b) == SubSeq(ops, k + 1, Min(k + b + 1, Len(ops)))
Batch(ops, k, b) == SubSeq(ops, k + 1, Min(k + b, Len(ops)))

\* `len(batch) - (bwe.details.get('nInserted', 0))`
FailedInBatchOff(batch, nInserted) == Len(batch)
FailedInBatch(batch, nInserted) == Len(batch) - nInserted

\* the outer handler: `except Exception as e: ...; raise`
PropagateOff(e) == NoError
Propagate(e) == e

RECURSIVE Pick(_, _, _)
\* the elements of batch at the positions in S, from position k on, in order
Pick(batch, S, k) ==
    IF k > Len(batch) THEN <<>>
    ELSE (IF k \in S THEN <<batch[k]>> ELSE <<>>) \o Pick(batch, S, k + 1)

LoadInit ==
    /\ documents \in SeqsUpTo(DocValues, MaxDocs)
    /\ batch_size \in BatchSizes
    /\ l_pc = "idle"
    /\ operations = <<>>
    /\ i = 0
    /\ total_inserted = 0
    /\ failed_inserts = 0
    /\ l_calls = <<>>
    /\ l_outcomes = <<>>
    /\ l_result = NoResult
    /\ l_error = NoError
    /\ collection = <<>>

\* lines 126-141: filter, build the operations, compute total_batches (a
\* division by batch_size), zero the counters; range() takes its first value
LoadCall ==
    /\ LoadFrame
    /\ l_pc = "idle"
    /\ operations' = ValidDocuments(documents)
    /\ total_inserted' = 0
    /\ failed_inserts' = 0
    /\ i' = 0
    /\ IF batch_size = 0
       THEN /\ l_error' = Propagate("ZeroDivisionError")
            /\ l_pc' = IF Propagate("ZeroDivisionError") = NoError
                       THEN "returned" ELSE "raised"
       ELSE /\ l_error' = NoError
            /\ l_pc' = "loop"
    /\ UNCHANGED <<documents, batch_size, l_calls, l_outcomes, l_result,
                   collection>>

\* lines 143-146: bulk_write returns; every operation of the batch was written
BatchSucceeds ==
    /\ LoadFrame
    /\ l_pc = "loop"
    /\ InRange(i, Len(operations), batch_size)
    /\ LET batch == Batch(operations, i, batch_size)
       IN  /\ l_calls' = Append(l_calls, batch)
           /\ l_outcomes' = Append(l_outcomes,
                                   [kind |-> "ok", nInserted |-> Len(batch)])
           /\ collection' = collection \o batch
           /\ total_inserted' = total_inserted + Len(batch)
    /\ i' = i + batch_size
    /\ UNCHANGED <<documents, batch_size, l_pc, operations, failed_inserts,
                   l_result, l_error>>

\* lines 147-149: bulk_write(ordered=False) raises BulkWriteError; the backend
\* stored the operations at the positions S and reports their number
BatchPartialFailure ==
    /\ LoadFrame
    /\ l_pc = "loop"
    /\ InRange(i, Len(operations), batch_size)
    /\ LET batch == Batch(operations, i, batch_size)
       IN  \E S \in SUBSET (1..Len(batch)) :
            /\ l_calls' = Append(l_calls, batch)
            /\ l_outcomes' = Append(l_outcomes,
                                    [kind |-> "partial", nInserted |-> Cardinality(S)])
            /\ collection' = collection \o Pick(batch, S, 1)
            /\ failed_inserts' = failed_inserts + FailedInBatch(batch, Cardinality(S))
    /\ i' = i + batch_size
    /\ UNCHANGED <<documents, batch_size, l_pc, operations, total_inserted,
                   l_result, l_error>>

\* bulk_write raises another exception: the inner handler does not match,
\* the outer one (lines 162-164) logs and re-raises
BatchFatal ==
    /\ LoadFrame
    /\ l_pc = "loop"
    /\ InRange(i, Len(operations), batch_size)
    /\ LET batch == Batch(operations, i, batch_size)
       IN  \E e \in WriteErrors, S \in SUBSET (1..Len(batch)) :
            /\ l_calls' = Append(l_calls, batch)
            /\ l_outcomes' = Append(l_outcomes,
                                    [kind |-> e, nInserted |-> Cardinality(S)])
            /\ collection' = collection \o Pick(batch, S, 1)
            /\ l_error' = Propagate(e)
            /\ l_pc' = IF Propagate(e) = NoError THEN "returned" ELSE "raised"
    /\ UNCHANGED <<documents, batch_size, operations, i, total_inserted,
                   failed_inserts, l_result>>

\* the range is exhausted: lines 159-160
LoadReturn ==
    /\ LoadFrame
    /\ l_pc = "loop"
    /\ ~InRange(i, Len(operations), batch_size)
    /\ l_result' = <<total_inserted, failed_inserts>>
    /\ l_pc' = "returned"
    /\ UNCHANGED <<documents, batch_size, operations, i, total_inserted,
                   failed_inserts, l_calls, l_outcomes, l_error, collection>>

LoadNext ==
    LoadCall \/ BatchSucceeds \/ BatchPartialFailure \/ BatchFatal \/ LoadReturn

\* ================================================== execute_query_with_stats
\* `time.sleep(1)`: one second is one clock tick
cooldown == 1

\* an exception of the benchmarked operation
OperationErrors == {"OperationalError"}

\* `for i in range(self.iterations)`: whether the loop has a value k
HasIterationOff(k, n) == k <= n
HasIteration(k, n) == k < n

\* lines 63-71 have no try: an exception of query_func() leaves the function
UncaughtOff(e) == NoError
Uncaught(e) == e

Abs(x) == IF x < 0 THEN -x ELSE x

RECURSIVE Sum(_)
Sum(xs) == IF xs = <<>> THEN 0 ELSE Head(xs) + Sum(Tail(xs))

RECURSIVE SumSq(_)
SumSq(xs) == IF xs = <<>> THEN 0 ELSE Head(xs) * Head(xs) + SumSq(Tail(xs))

\* min(xs) / max(xs), xs non-empty
MinOf(xs) == CHOOSE x \in {xs[k] : k \in 1..Len(xs)} : \A k \in 1..Len(xs) : x <= xs[k]
MaxOf(xs) == CHOOSE x \in {xs[k] : k \in 1..Len(xs)} : \A k \in 1..Len(xs) : x >= xs[k]

\* sorted(xs), as a sequence
Sorted(xs) ==
    CHOOSE q \in [1..Len(xs) -> {xs[k] : k \in 1..Len(xs)}] :
        /\ \A k \in 1..(Len(xs) - 1) : q[k] <= q[k + 1]
        /\ \A v \in {xs[k] : k \in 1..Len(xs)} :
              Cardinality({k \in 1..Len(xs) : q[k] = v})
                = Cardinality({k \in 1..Len(xs) : xs[k] = v})

\* statistics.median(xs), xs non-empty, as the fraction <<numerator, denominator>>
Median(xs) ==
    LET q == Sorted(xs)
        n == Len(xs)
    IN  IF n % 2 = 1 THEN <<q[(n + 1) \div 2], 1>>
        ELSE <<q[n \div 2] + q[(n \div 2) + 1], 2>>

\* the QueryResult of lines 73-80; mean and median are exact fractions
\* <<numerator, denominator>>, std_dev is given by its square (the sample
\* variance), 0 for a single sample
QueryResult(xs) ==
    [execution_times |-> xs,
     mean |-> <<Sum(xs), Len(xs)>>,
     median |-> Median(xs),
     std_dev_squared |-> IF Len(xs) > 1
                         THEN <<Len(xs) * SumSq(xs) - Sum(xs) * Sum(xs),
                                Len(xs) * (Len(xs) - 1)>>
                         ELSE <<0, 1>>,
     min_time |-> MinOf(xs),
     max_time |-> MaxOf(xs)]

BenchInit ==
    /\ iterations \in 0..MaxIterations
    /\ b_pc = "idle"
    /\ b_i = 0
    /\ now = 0
    /\ start_time = 0
    /\ execution_times = <<>>
    /\ b_begin = <<>>
    /\ b_end = <<>>
    /\ b_result = NoResult
    /\ b_error = NoError

\* lines 61-63: the call starts, range() takes its first value if it has one
BenchCall ==
    /\ BenchFrame
    /\ b_pc = "idle"
    /\ execution_times' = <<>>
    /\ b_i' = 0
    /\ b_pc' = IF HasIteration(0, iterations) THEN "iter" ELSE "summarize"
    /\ UNCHANGED <<iterations, now, start_time, b_begin, b_end, b_result, b_error>>

\* lines 64-66: log, read the clock, call query_func()
IterBegin ==
    /\ BenchFrame
    /\ b_pc = "iter"
    /\ start_time' = now
    /\ b_begin' = Append(b_begin, now)
    /\ b_pc' = "invoke"
    /\ UNCHANGED <<iterations, b_i, now, execution_times, b_end, b_result, b_error>>

\* line 67: `execution_time = time.time() - start_time`, read when query_func()
\* has returned and before time.sleep(1) starts
ElapsedOff(end, start) == (end + cooldown) - start
Elapsed(end, start) == end - start

\* lines 66-68: query_func() returns after d ticks; the elapsed time is
\* appended, then time.sleep(1) starts
OpReturns ==
    /\ BenchFrame
    /\ b_pc = "invoke"
    /\ \E d \in 0..MaxDuration :
        /\ now' = now + d
        /\ b_end' = Append(b_end, now + d)
        /\ execution_times' = Append(execution_times, Elapsed(now + d, start_time))
    /\ b_pc' = "cooldown"
    /\ UNCHANGED <<iterations, b_i, start_time, b_begin, b_result, b_error>>

\* line 66: query_func() raises after d ticks
OpRaises ==
    /\ BenchFrame
    /\ b_pc = "invoke"
    /\ \E d \in 0..MaxDuration, e \in OperationErrors :
        /\ now' = now + d
        /\ b_end' = Append(b_end, now + d)
        /\ b_error' = Uncaught(e)
        /\ b_pc' = IF Uncaught(e) = NoError THEN "cooldown" ELSE "raised"
    /\ UNCHANGED <<iterations, b_i, start_time, execution_times, b_begin, b_result>>

\* line 71: time.sleep(1) returns; the loop takes its next value or ends
Cooldown ==
    /\ BenchFrame
    /\ b_pc = "cooldown"
    /\ now' = now + cooldown
    /\ b_i' = b_i + 1
    /\ b_pc' = IF HasIteration(b_i + 1, iterations) THEN "iter" ELSE "summarize"
    /\ UNCHANGED <<iterations, start_time, execution_times, b_begin, b_end,
                   b_result, b_error>>

\* lines 73-80: statistics.mean raises StatisticsError on an empty list
Summarize ==
    /\ BenchFrame
    /\ b_pc = "summarize"
    /\ IF execution_times = <<>>
       THEN /\ b_error' = "StatisticsError"
            /\ b_pc' = "raised"
            /\ b_result' = b_result
       ELSE /\ b_result' = <<QueryResult(execution_times)>>
            /\ b_pc' = "returned"
            /\ b_error' = b_error
    /\ UNCHANGED <<iterations, b_i, now, start_time, execution_times, b_begin, b_end>>

BenchNext ==
    BenchCall \/ IterBegin \/ OpReturns \/ OpRaises \/ Cooldown \/ Summarize

\* ========================================================= _generate_findings
\* the dict keys of `results`, in insertion order (run_benchmark, lines 51-56)
CategoryNames == <<"simple_queries", "text_search">>

\* test names (benchmark_simple_queries, lines 85 and 90)
TestNames == {"mongodb_find", "postgres_select"}

\* `'mongo' in k.lower()` and `'postgres' in k.lower()`
ContainsMongo(name) == name \in {"mongodb_find"}
ContainsPostgres(name) == name \in {"postgres_select"}

\* the tests of one category: a dict, so the names are distinct
TestDicts ==
    {t \in SeqsUpTo([name : TestNames, mean : 0..MaxMean], Cardinality(TestNames)) :
        \A a, b \in 1..Len(t) : a # b => t[a].name # t[b].name}

\* diff_percent as the fraction <<numerator, denominator>>;
\* the division raises ZeroDivisionError when pg_metrics.mean is 0
DiffPercent(mongo_mean, pg_mean) == <<(mongo_mean - pg_mean) * 100, pg_mean>>

\* `abs(diff_percent) > 10`
Significant(d) == Abs(d[1]) > 10 * Abs(d[2])

\* `diff_percent < 0`
IsNegative(d) == (d[1] < 0 /\ d[2] > 0) \/ (d[1] > 0 /\ d[2] < 0)

\* `"MongoDB" if diff_percent < 0 else "PostgreSQL"`
FasterDb(d) == IF IsNegative(d) THEN "MongoDB" ELSE "PostgreSQL"

\* `f"{abs(diff_percent):.1f}"`: the absolute value rounded to one decimal
\* (ties to even), in tenths of a percent
FormatTenths(d) ==
    LET n == Abs(d[1]) * 10
        m == Abs(d[2])
        q == n \div m
        r == n % m
    IN  IF 2 * r > m THEN q + 1
        ELSE IF 2 * r < m THEN q
        ELSE IF q % 2 = 0 THEN q ELSE q + 1

RECURSIVE PairsOf(_, _, _)
\* the (mongo test, postgres test) pairs in the order of the nested loops of
\* lines 428-429, from the k-th pair on
PairsOf(mongo_tests, pg_tests, k) ==
    IF k > Len(mongo_tests) * Len(pg_tests) THEN <<>>
    ELSE <<[mongo |-> mongo_tests[((k - 1) \div Len(pg_tests)) + 1],
            pg |-> pg_tests[((k - 1) % Len(pg_tests)) + 1]]>>
         \o PairsOf(mongo_tests, pg_tests, k + 1)

RECURSIVE ScanPairs(_, _, _)
\* lines 430-438 over the pairs of one category; acc is the findings list
ScanPairs(category, pairs, acc) ==
    IF pairs = <<>> THEN [raised |-> FALSE, out |-> acc]
    ELSE LET pr == Head(pairs) IN
         IF pr.pg.mean = 0 THEN [raised |-> TRUE, out |-> acc]
         ELSE LET d == DiffPercent(pr.mongo.mean, pr.pg.mean) IN
              ScanPairs(category, Tail(pairs),
                        IF Significant(d)
                        THEN Append(acc, [category |-> category,
                                          faster_db |-> FasterDb(d),
                                          percent_tenths |-> FormatTenths(d),
                                          mongo_name |-> pr.mongo.name,
                                          pg_name |-> pr.pg.name])
                        ELSE acc)

RECURSIVE ScanCategories(_, _, _)
\* lines 424-438 from the k-th category of res on
ScanCategories(res, k, acc) ==
    IF k > Len(res) THEN [raised |-> FALSE, out |-> acc]
    ELSE LET tests == res[k]
             mongo_tests == SelectSeq(tests, LAMBDA t : ContainsMongo(t.name))
             pg_tests == SelectSeq(tests, LAMBDA t : ContainsPostgres(t.name))
             r == ScanPairs(CategoryNames[k], PairsOf(mongo_tests, pg_tests, 1), acc)
         IN  IF r.raised THEN r ELSE ScanCategories(res, k + 1, r.out)

FindInit ==
    /\ results \in SeqsUpTo(TestDicts, Len(CategoryNames))
    /\ f_pc = "idle"
    /\ findings = <<>>
    /\ f_error = NoError

\* _generate_findings(results) runs to its return or to the exception
GenerateFindings ==
    /\ FindFrame
    /\ f_pc = "idle"
    /\ LET r == ScanCategories(results, 1, <<>>)
       IN  IF r.raised
           THEN f_pc' = "raised" /\ f_error' = "ZeroDivisionError" /\ findings' = <<>>
           ELSE f_pc' = "returned" /\ f_error' = NoError /\ findings' = r.out
    /\ UNCHANGED results

FindNext == GenerateFindings

\* ==================================================================== main()
\* exceptions of the statements of main() that are not modelled further
\* (drop_database, read_csv, count_documents, SQL statements, ...)
MainErrors == {"OperationFailure"}

MainInit(prog) ==
    /\ m_prog = prog
    /\ m_pc = IF prog = "none" THEN "idle" ELSE "start"
    /\ m_bound = FALSE
    /\ m_orig = NoError
    /\ m_error = NoError
    /\ h_closed = <<>>
    /\ report_written = FALSE
    /\ p_pages \in (IF prog = "postgres" THEN 1..MaxPages ELSE {1})
    /\ p_log = <<>>

\* the try body is left by exception e: the except clause logs it and
\* re-raises, the finally clause runs next
TryFails(e) ==
    /\ m_orig' = e
    /\ m_error' = e
    /\ m_pc' = "finally"

\* the statement at m_pc completes and main() goes on to `next`
GoesOn(next) ==
    /\ m_pc' = next
    /\ UNCHANGED <<m_orig, m_error>>

\* ------------------------------------------- mongodb-script.py main()
\* whether two stored documents carry the same tweet_id
HasDuplicateIds(coll) ==
    \E a, b \in 1..Len(coll) : a # b /\ coll[a] = coll[b]

\* line 178: importer = MongoDBImporter(...)
MongoStart ==
    /\ m_prog = "mongo" /\ m_pc = "start"
    /\ m_bound' = TRUE
    /\ GoesOn("connect")
    /\ UNCHANGED <<connVars, loadVars, benchVars, findVars,
                   m_prog, preVars, h_closed, report_written, p_pages, p_log>>

\* line 179: importer.connect() runs
MongoConnect ==
    /\ m_prog = "mongo" /\ m_pc = "connect"
    /\ \/ (c_pc = "idle" /\ ConnectCall)
       \/ AttemptSucceeds
       \/ AttemptFails
       \/ SleepDone

\* line 179: importer.connect() has returned or raised
MongoConnectEnds ==
    /\ m_prog = "mongo" /\ m_pc = "connect"
    /\ c_pc \in {"returned", "raised"}
    /\ IF c_pc = "returned" THEN GoesOn("delete_database") ELSE TryFails(c_raised)
    /\ UNCHANGED <<connVars, loadVars, benchVars, findVars,
                   m_prog, preVars, m_bound, h_closed, report_written, p_pages, p_log>>

\* line 180: importer.delete_database(); lines 183-209: read_csv and the
\* preparation of the documents; line 221: count_documents
MongoPlainStep ==
    /\ m_prog = "mongo"
    /\ m_pc \in {"delete_database", "read_csv", "count_documents"}
    /\ \/ GoesOn(CASE m_pc = "delete_database" -> "read_csv"
                   [] m_pc = "read_csv" -> "load"
                   [] OTHER -> "finally")
       \/ \E e \in MainErrors : TryFails(e)
    /\ UNCHANGED <<connVars, loadVars, benchVars, findVars,
                   m_prog, preVars, m_bound, h_closed, report_written, p_pages, p_log>>

\* line 212: importer.bulk_insert_documents(documents, BATCH_SIZE) runs
MongoLoad ==
    /\ m_prog = "mongo" /\ m_pc = "load"
    /\ \/ LoadCall
       \/ BatchSucceeds
       \/ BatchPartialFailure
       \/ BatchFatal
       \/ LoadReturn

\* lines 212-215: the call has returned (total_inserted, failed_inserts), or
\* raised; `if total_inserted > 0` decides on create_indexes
MongoLoadEnds ==
    /\ m_prog = "mongo" /\ m_pc = "load"
    /\ l_pc \in {"returned", "raised"}
    /\ IF l_pc = "raised" THEN TryFails(l_error)
       ELSE IF l_result[1] > 0 THEN GoesOn("create_indexes")
       ELSE GoesOn("count_documents")
    /\ UNCHANGED <<connVars, loadVars, benchVars, findVars,
                   m_prog, preVars, m_bound, h_closed, report_written, p_pages, p_log>>

\* line 216: importer.create_indexes(); the unique index on tweet_id (line
\* 105) cannot be built over documents that share a tweet_id
MongoCreateIndexes ==
    /\ m_prog = "mongo" /\ m_pc = "create_indexes"
    /\ \/ /\ ~HasDuplicateIds(collection)
          /\ GoesOn("count_documents")
       \/ /\ HasDuplicateIds(collection)
          /\ TryFails("DuplicateKeyError")
       \/ \E e \in MainErrors : TryFails(e)
    /\ UNCHANGED <<connVars, loadVars, benchVars, findVars,
                   m_prog, preVars, m_bound, h_closed, report_written, p_pages, p_log>>

\* lines 234-236: `if 'importer' in locals(): importer.client.close()`;
\* None has no close(): the AttributeError replaces what was propagating
MongoFinally ==
    /\ m_prog = "mongo" /\ m_pc = "finally"
    /\ m_pc' = "exit"
    /\ IF m_bound /\ c_fields.client = None
       THEN /\ m_error' = "AttributeError"
            /\ UNCHANGED <<h_closed, c_open>>
       ELSE IF m_bound
       THEN /\ h_closed' = Append(h_closed, c_fields.client)
            /\ c_open' = c_open \ {c_fields.client}
            /\ m_error' = m_error
       ELSE UNCHANGED <<h_closed, c_open, m_error>>
    /\ UNCHANGED <<c_kind, c_pc, attempt, c_tries, c_waits, c_errs, c_raised,
                   c_fields, c_before, c_next, c_calls,
                   loadVars, benchVars, findVars,
                   m_prog, preVars, m_bound, m_orig, report_written, p_pages, p_log>>

MongoMainNext ==
    \/ MongoStart
    \/ MongoConnect
    \/ MongoConnectEnds
    \/ MongoPlainStep
    \/ MongoLoad
    \/ MongoLoadEnds
    \/ MongoCreateIndexes
    \/ MongoFinally

\* ------------------------------------------ postgres-script.py main()
\* lines 311-319: the three inserts, in the order main() makes them
Stages == <<"users", "tweets", "sentiment">>

StageNames == {Stages[k] : k \in 1..Len(Stages)}

\* what main() does after the insert `stage`
AfterStage(stage) ==
    CASE stage = "users" -> "tweets"
      [] stage = "tweets" -> "sentiment"
      [] OTHER -> "finally"

\* the pages of `stage` execute_values has sent so far
PagesSent(log, stage) ==
    Cardinality({k \in 1..Len(log) : log[k].stage = stage})

\* connect() is the first (line 51) or the second (line 69) call of
\* create_database
ConnectsBefore(pc) == IF pc = "connect_default" THEN 0 ELSE 1

\* line 265: importer = PostgresImporter(**DB_CONFIG)
PgStart ==
    /\ m_prog = "postgres" /\ m_pc = "start"
    /\ m_bound' = TRUE
    /\ GoesOn("connect_default")
    /\ UNCHANGED <<connVars, loadVars, benchVars, findVars,
                   m_prog, preVars, h_closed, report_written, p_pages, p_log>>

\* lines 51 and 69: self.connect() / self.connect(dbname) runs
PgConnect ==
    /\ m_prog = "postgres" /\ m_pc \in {"connect_default", "connect_new"}
    /\ \/ (c_calls = ConnectsBefore(m_pc) /\ ConnectCall)
       \/ (c_calls = ConnectsBefore(m_pc) + 1 /\ AttemptSucceeds)
       \/ (c_calls = ConnectsBefore(m_pc) + 1 /\ AttemptFails)
       \/ (c_calls = ConnectsBefore(m_pc) + 1 /\ SleepDone)

\* lines 51 and 69: the call has returned or raised; the except clause of
\* create_database (line 70) logs and re-raises
PgConnectEnds ==
    /\ m_prog = "postgres" /\ m_pc \in {"connect_default", "connect_new"}
    /\ c_calls = ConnectsBefore(m_pc) + 1
    /\ c_pc \in {"returned", "raised"}
    /\ IF c_pc = "raised" THEN TryFails(c_raised)
       ELSE IF m_pc = "connect_default" THEN GoesOn("drop_create")
       ELSE GoesOn("create_tables")
    /\ UNCHANGED <<connVars, loadVars, benchVars, findVars,
                   m_prog, preVars, m_bound, h_closed, report_written, p_pages, p_log>>

\* lines 54-63: terminate the sessions, DROP and CREATE DATABASE; line 267:
\* create_tables; lines 270-298: read_csv and the check of the columns
PgPlainStep ==
    /\ m_prog = "postgres"
    /\ m_pc \in {"drop_create", "create_tables", "read_csv"}
    /\ \/ GoesOn(CASE m_pc = "drop_create" -> "close_default"
                   [] m_pc = "create_tables" -> "read_csv"
                   [] OTHER -> Stages[1])
       \/ \E e \in MainErrors : TryFails(e)
    /\ UNCHANGED <<connVars, loadVars, benchVars, findVars,
                   m_prog, preVars, m_bound, h_closed, report_written, p_pages, p_log>>

\* lines 235-240: close() closes self.cursor and self.conn if they are set,
\* and leaves both fields as they are
PgClose ==
    /\ IF c_fields.conn # None
       THEN /\ h_closed' = Append(h_closed, c_fields.conn)
            /\ c_open' = c_open \ {c_fields.conn}
       ELSE UNCHANGED <<h_closed, c_open>>
    /\ UNCHANGED <<c_kind, c_pc, attempt, c_tries, c_waits, c_errs, c_raised,
                   c_fields, c_before, c_next, c_calls>>

\* line 66: self.close() on the connection to the default database
PgCloseDefault ==
    /\ m_prog = "postgres" /\ m_pc = "close_default"
    /\ PgClose
    /\ GoesOn("connect_new")
    /\ UNCHANGED <<loadVars, benchVars, findVars,
                   m_prog, preVars, m_bound, report_written, p_pages, p_log>>

\* lines 155, 186, 218: execute_values sends the next page of the insert as
\* one statement; the server accepts it, or rejects a row of it, the
\* statement raises and the except clause of the insert logs and re-raises
PgPage ==
    /\ m_prog = "postgres" /\ m_pc \in StageNames
    /\ PagesSent(p_log, m_pc) < p_pages
    /\ \/ /\ p_log' = Append(p_log, [stage |-> m_pc,
                                     page |-> PagesSent(p_log, m_pc) + 1,
                                     outcome |-> "accepted"])
          /\ GoesOn(m_pc)
       \/ /\ p_log' = Append(p_log, [stage |-> m_pc,
                                     page |-> PagesSent(p_log, m_pc) + 1,
                                     outcome |-> "rejected"])
          /\ TryFails("IntegrityError")
    /\ UNCHANGED <<connVars, loadVars, benchVars, findVars,
                   m_prog, preVars, m_bound, h_closed, report_written, p_pages>>

\* lines 161, 196, 229: all pages were sent, self.conn.commit() and return
PgStageEnds ==
    /\ m_prog = "postgres" /\ m_pc \in StageNames
    /\ PagesSent(p_log, m_pc) = p_pages
    /\ \/ GoesOn(AfterStage(m_pc))
       \/ \E e \in MainErrors : TryFails(e)
    /\ UNCHANGED <<connVars, loadVars, benchVars, findVars,
                   m_prog, preVars, m_bound, h_closed, report_written, p_pages, p_log>>

\* lines 333-335: `if 'importer' in locals(): importer.close()`
PgFinally ==
    /\ m_prog = "postgres" /\ m_pc = "finally"
    /\ m_pc' = "exit"
    /\ IF m_bound THEN PgClose ELSE UNCHANGED <<connVars, h_closed>>
    /\ UNCHANGED <<loadVars, benchVars, findVars,
                   m_prog, preVars, m_bound, m_orig, m_error, report_written,
                   p_pages, p_log>>

PostgresMainNext ==
    \/ PgStart
    \/ PgConnect
    \/ PgConnectEnds
    \/ PgPlainStep
    \/ PgCloseDefault
    \/ PgPage
    \/ PgStageEnds
    \/ PgFinally

\* --------------------------------------------- comparisons.py main()
\* a category as run_benchmark returns it: the two tests of
\* benchmark_simple_queries, each with the mean of its QueryResult
BenchCategories ==
    {<<[name |-> "mongodb_find", mean |-> a],
       [name |-> "postgres_select", mean |-> b]>> : a, b \in 0..MaxMainMean}

\* lines 51-57: the dict of the categories
BenchResults ==
    [1..Len(CategoryNames) -> BenchCategories]

\* the exceptions of open() / json.dump and of plt.savefig
ReportErrors == {"OSError"}

\* lines 451 and 32-47: DatabaseBenchmark(iterations=3). MongoClient(...)
\* raises; or it returns and psycopg2.connect raises, and then no name is
\* bound to the object that holds the client; or both return
BenchConstruct ==
    /\ m_prog = "bench" /\ m_pc = "start"
    /\ \/ \E e \in ConnErrors :
            /\ TryFails(e)
            /\ UNCHANGED <<c_fields, c_open, c_next, m_bound>>
       \/ \E e \in ConnErrors :
            /\ c_fields' = [c_fields EXCEPT !.client = c_next]
            /\ c_open' = c_open \cup {c_next}
            /\ c_next' = c_next + 1
            /\ TryFails(e)
            /\ UNCHANGED m_bound
       \/ /\ c_fields' = [c_fields EXCEPT !.client = c_next,
                                          !.conn = c_next + 1,
                                          !.cursor = c_next + 1]
          /\ c_open' = c_open \cup {c_next, c_next + 1}
          /\ c_next' = c_next + 2
          /\ m_bound' = TRUE
          /\ GoesOn("run_benchmark")
    /\ UNCHANGED <<c_kind, c_pc, attempt, c_tries, c_waits, c_errs, c_raised,
                   c_before, c_calls, loadVars, benchVars, findVars,
                   m_prog, preVars, h_closed, report_written, p_pages, p_log>>

\* line 454: benchmark.run_benchmark() returns the results of its
\* execute_query_with_stats calls, or one of them raises
BenchRun ==
    /\ m_prog = "bench" /\ m_pc = "run_benchmark"
    /\ \/ \E r \in BenchResults :
            /\ results' = r
            /\ GoesOn("generate_report")
       \/ \E e \in OperationErrors :
            /\ TryFails(e)
            /\ UNCHANGED results
    /\ UNCHANGED <<connVars, loadVars, benchVars, f_pc, findings, f_error,
                   m_prog, preVars, m_bound, h_closed, report_written, p_pages, p_log>>

\* line 385: generate_report calls self._generate_findings(results)
BenchFindings ==
    /\ m_prog = "bench" /\ m_pc = "generate_report"
    /\ GenerateFindings

\* lines 379-401: the report dict is built, unless _generate_findings raised
BenchFindingsEnds ==
    /\ m_prog = "bench" /\ m_pc = "generate_report"
    /\ f_pc \in {"returned", "raised"}
    /\ IF f_pc = "raised" THEN TryFails(f_error) ELSE GoesOn("write_report")
    /\ UNCHANGED <<connVars, loadVars, benchVars, findVars,
                   m_prog, preVars, m_bound, h_closed, report_written, p_pages, p_log>>

\* lines 404-405: open('./json/benchmark_report.json', 'w') and json.dump
BenchWriteReport ==
    /\ m_prog = "bench" /\ m_pc = "write_report"
    /\ \/ /\ report_written' = TRUE
          /\ GoesOn("visualizations")
       \/ \E e \in ReportErrors :
            /\ TryFails(e)
            /\ UNCHANGED report_written
    /\ UNCHANGED <<connVars, loadVars, benchVars, findVars,
                   m_prog, preVars, m_bound, h_closed, p_pages, p_log>>

\* line 408: self.generate_visualizations(results), three plt.savefig calls
BenchVisualize ==
    /\ m_prog = "bench" /\ m_pc = "visualizations"
    /\ \/ GoesOn("finally")
       \/ \E e \in ReportErrors : TryFails(e)
    /\ UNCHANGED <<connVars, loadVars, benchVars, findVars,
                   m_prog, preVars, m_bound, h_closed, report_written, p_pages, p_log>>

\* lines 464-466 and 442-446: `if 'benchmark' in locals(): benchmark.close()`
\* closes the client, the cursor and the connection
BenchFinally ==
    /\ m_prog = "bench" /\ m_pc = "finally"
    /\ m_pc' = "exit"
    /\ IF m_bound
       THEN /\ h_closed' = h_closed \o <<c_fields.client, c_fields.conn>>
            /\ c_open' = c_open \ {c_fields.client, c_fields.conn}
       ELSE UNCHANGED <<h_closed, c_open>>
    /\ UNCHANGED <<c_kind, c_pc, attempt, c_tries, c_waits, c_errs, c_raised,
                   c_fields, c_before, c_next, c_calls,
                   loadVars, benchVars, findVars,
                   m_prog, preVars, m_bound, m_orig, m_error, report_written,
                   p_pages, p_log>>

BenchMainNext ==
    \/ BenchConstruct
    \/ BenchRun
    \/ BenchFindings
    \/ BenchFindingsEnds
    \/ BenchWriteReport
    \/ BenchVisualize
    \/ BenchFinally

\* ======================================== pre-processing-script.py main()
\* line 131: CHUNK_SIZE = 10000, scaled down
CHUNK_SIZE == 2

Max(a, b) == IF a > b THEN a ELSE b

RECURSIVE ArraySplit(_, _)
\* np.array_split(df, k): k chunks in row order, the first len(df) % k of
\* them one row longer than the others
ArraySplit(df, k) ==
    IF k = 0 THEN <<>>
    ELSE LET n == Len(df)
             size == (n \div k) + (IF n % k > 0 THEN 1 ELSE 0)
         IN  <<SubSeq(df, 1, size)>> \o ArraySplit(SubSeq(df, size + 1, n), k - 1)

\* line 163: `if r.get() is not None`; process_chunk returns None when it
\* caught an exception (lines 122-124)
KeptOff(st) == TRUE
Kept(st) == st = "ok"

PreInit ==
    /\ rows \in {[k \in 1..n |-> k] : n \in 0..MaxRows}
    /\ chunks = <<>>
    /\ pr_pc = "idle"
    /\ status = <<>>
    /\ pr_j = 0
    /\ pr_results = <<>>
    /\ pr_df = <<>>
    /\ pr_error = NoError

PreFrame == UNCHANGED <<connVars, loadVars, benchVars, findVars, mainVars>>

\* line 152: chunks = np.array_split(df, max(1, len(df) // CHUNK_SIZE))
PreSplit ==
    /\ PreFrame
    /\ pr_pc = "idle"
    /\ chunks' = ArraySplit(rows, Max(1, Len(rows) \div CHUNK_SIZE))
    /\ status' = [k \in 1..Max(1, Len(rows) \div CHUNK_SIZE) |-> "unsubmitted"]
    /\ pr_pc' = "submit"
    /\ UNCHANGED <<rows, pr_j, pr_results, pr_df, pr_error>>

\* lines 157-160: pool.apply_async(process_chunk, args=(chunk, analyzer)) for
\* the next chunk; after the last one the list comprehension starts
PreSubmit ==
    /\ PreFrame
    /\ pr_pc = "submit"
    /\ LET k == Cardinality({c \in 1..Len(status) : status[c] # "unsubmitted"}) + 1
       IN  /\ status' = [status EXCEPT ![k] = "running"]
           /\ IF k = Len(chunks)
              THEN pr_pc' = "collect" /\ pr_j' = 1
              ELSE pr_pc' = "submit" /\ pr_j' = pr_j
    /\ UNCHANGED <<rows, chunks, pr_results, pr_df, pr_error>>

\* lines 106-124: a worker ends process_chunk for one of the running chunks,
\* returning the chunk, or None after an exception
WorkerReturns ==
    /\ PreFrame
    /\ \E k \in 1..Len(status), st \in {"ok", "failed"} :
        /\ status[k] = "running"
        /\ status' = [status EXCEPT ![k] = st]
    /\ UNCHANGED <<rows, chunks, pr_pc, pr_j, pr_results, pr_df, pr_error>>

\* line 163: r.get() waits for the result of the next AsyncResult in
\* submission order and the comprehension keeps it unless it is None
PreGet ==
    /\ PreFrame
    /\ pr_pc = "collect"
    /\ pr_j <= Len(chunks)
    /\ status[pr_j] \in {"ok", "failed"}
    /\ pr_results' = IF Kept(status[pr_j])
                     THEN Append(pr_results, chunks[pr_j])
                     ELSE pr_results
    /\ pr_j' = pr_j + 1
    /\ UNCHANGED <<rows, chunks, pr_pc, status, pr_df, pr_error>>

\* line 166: pd.concat(results, ignore_index=True) raises ValueError when
\* results is empty
PreConcat ==
    /\ PreFrame
    /\ pr_pc = "collect"
    /\ pr_j > Len(chunks)
    /\ IF pr_results = <<>>
       THEN pr_pc' = "raised" /\ pr_error' = "ValueError" /\ pr_df' = pr_df
       ELSE pr_pc' = "done" /\ pr_error' = pr_error /\ pr_df' = Concat(pr_results)
    /\ UNCHANGED <<rows, chunks, status, pr_j, pr_results>>

PreNext ==
    \/ PreSplit
    \/ PreSubmit
    \/ WorkerReturns
    \/ PreGet
    \/ PreConcat

\* ============================================================ specifications
LoadIdle ==
    /\ documents = <<>>
    /\ batch_size = 1
    /\ l_pc = "idle"
    /\ operations = <<>>
    /\ i = 0
    /\ total_inserted = 0
    /\ failed_inserts = 0
    /\ l_calls = <<>>
    /\ l_outcomes = <<>>
    /\ l_result = NoResult
    /\ l_error = NoError
    /\ collection = <<>>

ConnIdle == ConnInit /\ c_kind = "mongo"

BenchIdle == BenchInit /\ iterations = 3

FindIdle ==
    /\ results = <<>>
    /\ f_pc = "idle"
    /\ findings = <<>>
    /\ f_error = NoError

MainIdle == MainInit("none")

PreIdle == PreInit /\ rows = <<>>

InitConnect == ConnInit /\ LoadIdle /\ BenchIdle /\ FindIdle /\ MainIdle /\ PreIdle
SpecConnect == InitConnect /\ [][ConnNext]_vars

InitLoad == LoadInit /\ ConnIdle /\ BenchIdle /\ FindIdle /\ MainIdle /\ PreIdle
SpecLoad == InitLoad /\ [][LoadNext]_vars

InitBench == BenchInit /\ ConnIdle /\ LoadIdle /\ FindIdle /\ MainIdle /\ PreIdle
SpecBench == InitBench /\ [][BenchNext]_vars

InitFindings == FindInit /\ ConnIdle /\ LoadIdle /\ BenchIdle /\ MainIdle /\ PreIdle
SpecFindings == InitFindings /\ [][FindNext]_vars

\* the MongoDB import: the documents main() prepares hold no None (lines
\* 204-206), BATCH_SIZE is positive, the database was dropped
InitMongoMain ==
    /\ MainInit("mongo")
    /\ ConnIdle
    /\ LoadInit
    /\ documents \in SeqsUpTo(1..MaxDocId, MaxMainDocs)
    /\ batch_size \in 1..MaxBatch
    /\ BenchIdle
    /\ FindIdle
    /\ PreIdle
SpecMongoMain == InitMongoMain /\ [][MongoMainNext]_vars

\* the PostgreSQL import: the CSV makes at least one page of rows
InitPostgresMain ==
    /\ MainInit("postgres")
    /\ ConnInit /\ c_kind = "postgres"
    /\ LoadIdle
    /\ BenchIdle
    /\ FindIdle
    /\ PreIdle
SpecPostgresMain == InitPostgresMain /\ [][PostgresMainNext]_vars

\* the benchmark: no driver object exists before DatabaseBenchmark(...)
InitBenchMain ==
    /\ MainInit("bench")
    /\ ConnIdle
    /\ LoadIdle
    /\ BenchIdle
    /\ FindIdle
    /\ PreIdle
SpecBenchMain == InitBenchMain /\ [][BenchMainNext]_vars

\* the preprocessing: df holds distinct ids after handle_duplicates
InitPreprocessing ==
    /\ PreInit
    /\ ConnIdle
    /\ LoadIdle
    /\ BenchIdle
    /\ FindIdle
    /\ MainIdle
SpecPreprocessing == InitPreprocessing /\ [][PreNext]_vars

\* C1: a connect call makes at most 3 attempts; it returns at the first
\* successful attempt (every earlier attempt of the call failed, and nothing
\* is attempted after the success); it raises only after exactly 3 failed
\* attempts.
C1_AtMostThreeAttempts ==
    /\ c_tries <= 3
    /\ Len(c_errs) <= c_tries
    /\ (c_pc = "raised" => c_tries = 3 /\ Len(c_errs) = 3)
    /\ (c_pc = "returned" => c_tries = Len(c_errs) + 1)
    /\ (c_pc \in {"try", "sleep"} => c_tries = Len(c_errs) /\ c_tries < 3)

\* connect raised after three failed attempts
C1_Witness == c_pc = "raised" /\ c_tries = 3

\* -------------------------------------------- bulk_insert_documents claims
RECURSIVE Flatten(_)
\* the concatenation of a sequence of batches
Flatten(batches) ==
    IF batches = <<>> THEN <<>> ELSE Head(batches) \o Flatten(Tail(batches))

RECURSIVE CountValid(_)
\* the number of documents of a list that are not None
CountValid(docs) ==
    IF docs = <<>> THEN 0
    ELSE (IF Head(docs) # None THEN 1 ELSE 0) + CountValid(Tail(docs))

\* the least k with k * b >= n, for b >= 1
CeilDiv(n, b) == CHOOSE k \in 0..n : k * b >= n /\ (k = 0 \/ (k - 1) * b < n)

\* N: the valid documents of the argument
NumValid == CountValid(documents)

\* the call was made with a positive batch_size
PositiveBatch == batch_size >= 1

\* the backend's answers so far that were partial failures / other errors
PartialAt == {k \in 1..Len(l_outcomes) : l_outcomes[k].kind = "partial"}
FatalAt == {k \in 1..Len(l_outcomes) : l_outcomes[k].kind \in WriteErrors}

RECURSIVE SumOver(_, _)
\* the sum of f[k] over the finite set S
SumOver(f, S) ==
    IF S = {} THEN 0
    ELSE LET k == CHOOSE x \in S : TRUE IN f[k] + SumOver(f, S \ {k})

\* C2: with N valid documents and batch_size B >= 1, a call that returns has
\* issued exactly ceil(N/B) bulk_write calls; at every moment the batches
\* issued are consecutive slices of the filtered list in input order (their
\* concatenation is a prefix of it, the whole of it on return), every batch
\* but the last has exactly B documents and none has more than B or none.
C2_BatchesPartitionValidDocuments ==
    (PositiveBatch /\ l_pc # "idle") =>
        LET filtered == SelectSeq(documents, LAMBDA d : d # None)
            flat == Flatten(l_calls)
        IN  /\ Len(flat) <= Len(filtered)
            /\ flat = SubSeq(filtered, 1, Len(flat))
            /\ \A k \in 1..Len(l_calls) :
                    /\ Len(l_calls[k]) >= 1
                    /\ Len(l_calls[k]) <= batch_size
                    /\ (k < Len(l_calls) => Len(l_calls[k]) = batch_size)
            /\ (l_pc = "returned" =>
                    /\ Len(l_calls) = CeilDiv(NumValid, batch_size)
                    /\ flat = filtered
                    /\ Len(flat) = NumValid)

\* a returned load of several batches, the last one shorter than batch_size,
\* with None documents filtered out
C2_Witness ==
    /\ l_pc = "returned"
    /\ batch_size = 2
    /\ NumValid = 3
    /\ Len(documents) > NumValid
    /\ Len(l_calls) = 2

\* C3: in every state of a load, total_inserted + failed_inserts is at most
\* the number of valid documents submitted so far, hence at most N; the
\* documents filtered out are never submitted and never counted as failed.
C3_CountersBoundedBySubmitted ==
    (PositiveBatch /\ l_pc # "idle") =>
        /\ total_inserted >= 0
        /\ failed_inserts >= 0
        /\ total_inserted + failed_inserts <= CountValid(Flatten(l_calls))
        /\ total_inserted + failed_inserts <= NumValid
        /\ (l_pc = "returned" => l_result[1] + l_result[2] <= NumValid)

\* a returned load with filtered-out documents, one batch fully written and
\* one partially failing
C3_Witness ==
    /\ l_pc = "returned"
    /\ Len(documents) > NumValid
    /\ total_inserted > 0
    /\ failed_inserts > 0
    /\ PartialAt # {}

\* C4: (the claim) the backend of this model always reports the number it
\* inserted and rejects the rest; the returned outcome then satisfies
\* inserted + failed = N, also when a batch failed partially.
C4_FullAccountingSumsToN ==
    (PositiveBatch /\ l_pc = "returned") => l_result[1] + l_result[2] = NumValid

\* C5: a batch answered by BulkWriteError adds len(batch) - nInserted to
\* failed_inserts and nothing else; it does not end the load: the loop goes
\* on to the next slice (i advances by one batch per call), a raised call has
\* a non-partial error as its last answer, and a load whose answers are all
\* successes or partial failures returns after all ceil(N/B) batches.
C5_PartialFailureCountedNotFatal ==
    (PositiveBatch /\ l_pc # "idle") =>
        /\ failed_inserts =
              SumOver([k \in 1..Len(l_outcomes) |->
                          Len(l_calls[k]) - l_outcomes[k].nInserted], PartialAt)
        /\ (l_pc = "loop" => i = batch_size * Len(l_calls))
        /\ (l_pc = "raised" => FatalAt = {Len(l_outcomes)})
        /\ (l_pc = "returned" => /\ FatalAt = {}
                                 /\ l_error = NoError
                                 /\ l_result = <<total_inserted, failed_inserts>>
                                 /\ Flatten(l_calls) = operations)

\* a returned load whose first batch failed partially, having inserted some
\* of its documents, and whose later batch was still submitted
C5_Witness ==
    /\ l_pc = "returned"
    /\ Len(l_calls) >= 2
    /\ 1 \in PartialAt
    /\ l_outcomes[1].nInserted >= 1
    /\ l_outcomes[1].nInserted < Len(l_calls[1])

\* C6: when bulk_write fails with an error that is not a partial failure,
\* the call raises that very error, returns no outcome, has submitted the
\* failed batch once and no batch after it (the calls are the slices up to and
\* including the failed one, the loop index still on it).
C6_FatalErrorPropagates ==
    (PositiveBatch /\ FatalAt # {}) =>
        /\ l_pc = "raised"
        /\ FatalAt = {Len(l_outcomes)}
        /\ l_error = l_outcomes[Len(l_outcomes)].kind
        /\ l_result = NoResult
        /\ Len(l_calls) = (i \div batch_size) + 1
        /\ l_calls[Len(l_calls)] = Batch(operations, i, batch_size)
        /\ Flatten(l_calls) = SubSeq(operations, 1, Len(Flatten(l_calls)))

\* a load that raised on its first batch while batches remained unsubmitted
C6_Witness ==
    /\ l_pc = "raised"
    /\ FatalAt = {1}
    /\ Len(l_calls) = 1
    /\ Len(operations) > Len(l_calls[1])

\* C7: a load (batch_size >= 1) whose list is empty or holds only None
\* documents makes no bulk_write call, does not raise, and returns (0, 0).
C7_EmptyLoadMakesNoCall ==
    (PositiveBatch /\ NumValid = 0 /\ l_pc # "idle") =>
        /\ l_calls = <<>>
        /\ l_pc \in {"loop", "returned"}
        /\ l_error = NoError
        /\ (l_pc = "returned" => l_result = <<0, 0>>)

\* a returned load of a non-empty list of None documents
C7_Witness ==
    /\ l_pc = "returned"
    /\ Len(documents) >= 2
    /\ NumValid = 0
    /\ l_result = <<0, 0>>

\* ----------------------------------------- execute_query_with_stats claims
\* an invocation of the operation ended without producing a sample: it raised
OperationRaised == Len(b_end) > Len(execution_times)

\* C8: with iterations = n >= 1 and while the operation has not raised, the
\* invocations are sequential (at most one is running, each ends before the
\* next begins), there are never more than n of them, and sample k is the
\* duration of the k-th invocation; the call returns after exactly n
\* invocations a QueryResult holding exactly these n samples in that order.
C8_OneSamplePerInvocationInOrder ==
    (iterations >= 1 /\ ~OperationRaised) =>
        /\ Len(b_begin) <= iterations
        /\ Len(b_begin) - Len(b_end) = (IF b_pc = "invoke" THEN 1 ELSE 0)
        /\ \A k \in 1..Len(b_end) : b_begin[k] <= b_end[k]
        /\ \A k \in 1..(Len(b_begin) - 1) : b_end[k] <= b_begin[k + 1]
        /\ Len(execution_times) = Len(b_end)
        /\ \A k \in 1..Len(execution_times) :
              execution_times[k] = b_end[k] - b_begin[k]
        /\ b_pc # "raised"
        /\ (b_pc = "returned" =>
              /\ Len(b_begin) = iterations
              /\ Len(b_result) = 1
              /\ b_result[1].execution_times = execution_times
              /\ Len(b_result[1].execution_times) = iterations)

\* a returned run of three iterations whose durations differ, so that the
\* order of the samples shows
C8_Witness ==
    /\ b_pc = "returned"
    /\ iterations = 3
    /\ b_result[1].execution_times = <<2, 0, 1>>

\* C9: once the operation has raised, on whatever iteration, the call has
\* raised that error, no further invocation is made (the invocations are the
\* samples taken before plus the raising one), and neither a QueryResult nor
\* the samples taken so far are returned.
C9_OperationErrorAbortsRun ==
    OperationRaised =>
        /\ b_pc = "raised"
        /\ b_error \in OperationErrors
        /\ b_result = NoResult
        /\ Len(b_begin) = Len(b_end)
        /\ Len(b_end) = Len(execution_times) + 1
        /\ Len(b_begin) = b_i + 1
        /\ Len(b_begin) <= iterations

\* the operation raised on the second of three iterations, the first one
\* having produced a sample
C9_Witness ==
    /\ b_pc = "raised"
    /\ iterations = 3
    /\ Len(execution_times) = 1
    /\ Len(b_begin) = 2
    /\ b_error \in OperationErrors

\* C21: every timing sample is the time from the clock reading just before
\* one invocation of the operation to its end, with no cooldown in it, and a
\* whole cooldown sleep lies between the end of one invocation and the
\* beginning of the next.
C21_CooldownOutsideMeasurement ==
    /\ Len(execution_times) <= Len(b_end)
    /\ \A k \in 1..Len(execution_times) :
          /\ execution_times[k] = b_end[k] - b_begin[k]
          /\ execution_times[k] <= MaxDuration
    /\ \A k \in 1..(Len(b_begin) - 1) :
          b_begin[k + 1] - b_end[k] >= cooldown
    /\ (b_pc = "returned" => b_result[1].execution_times = execution_times)

\* three invocations of 1, 2 and 0 ticks, begun at 0, 2 and 5: a tick of
\* cooldown after each of the first two, none of it in a sample
C21_Witness ==
    /\ b_pc = "returned"
    /\ b_begin = <<0, 2, 5>>
    /\ b_end = <<1, 4, 5>>
    /\ execution_times = <<1, 2, 0>>

\* the driver objects the importer's fields refer to
Reachable == {c_fields.client, c_fields.conn} \ {None}

\* C22: (the claim) when the first connect() of an importer has returned or
\* raised, every driver object it created and nobody closed is the one the
\* importer's fields refer to.
C22_NoOpenUnreachableClient ==
    c_calls = 1 /\ c_pc \in {"returned", "raised"} => c_open \subseteq Reachable

\* the first attempt bound a MongoClient and failed in server_info(), the
\* second succeeded and rebound self.client: the first client is open and
\* no field refers to it
UnreachableClientLeftOpen ==
    /\ c_kind = "mongo"
    /\ c_calls = 1
    /\ c_pc = "returned"
    /\ c_tries = 2
    /\ c_fields.client = 2
    /\ c_open = {1, 2}

\* C24: (the claim) in the MongoDB main(), create_indexes is reached only
\* when bulk_insert_documents has returned, and main() passes from the load
\* to the final count without create_indexes only when the load stored no
\* document in the collection.
C24_IndexesAfterLoadWhenStored ==
    /\ [](m_prog = "mongo" /\ m_pc = "create_indexes" => l_pc = "returned")
    /\ [][m_prog = "mongo" /\ m_pc = "load" /\ m_pc' = "count_documents"
            => collection = <<>>]_vars

\* every batch ended in a BulkWriteError that stored some of its documents:
\* total_inserted is 0, the collection is not empty, and main() is past
\* `if total_inserted > 0` without having called create_indexes
IndexesSkippedOnNonEmptyCollection ==
    /\ m_prog = "mongo"
    /\ m_pc = "count_documents"
    /\ m_orig = NoError
    /\ l_result[1] = 0
    /\ collection # <<>>

FailedChunkDropped ==
    /\ pr_pc = "done"
    /\ rows = <<1, 2, 3, 4>>
    /\ status = <<"failed", "ok">>
    /\ pr_df = <<3, 4>>

\* ----------------------------------------------- _generate_findings claims
\* the findings emitted for the pair (a, b) of the k-th category
FindingsFor(k, a, b) ==
    {n \in 1..Len(findings) :
        /\ findings[n].category = CategoryNames[k]
        /\ findings[n].mongo_name = a.name
        /\ findings[n].pg_name = b.name}

\* the (MongoDB test, PostgreSQL test) pairs of the k-th category whose
\* diff_percent is defined
DefinedPairs(k) ==
    {pr \in {results[k][x] : x \in 1..Len(results[k])}
            \X {results[k][x] : x \in 1..Len(results[k])} :
        /\ ContainsMongo(pr[1].name)
        /\ ContainsPostgres(pr[2].name)
        /\ pr[2].mean # 0}

\* what the claim says of the findings list, for the pairs with a defined
\* diff_percent: one finding when |diff_percent| > 10 and none otherwise,
\* naming MongoDB exactly when diff_percent < 0, with the magnitude
\* |diff_percent| to within the rounding to one decimal
FindingsMatchDiffs ==
    /\ \A k \in 1..Len(results) : \A pr \in DefinedPairs(k) :
        LET num == (pr[1].mean - pr[2].mean) * 100
            den == pr[2].mean
            hits == FindingsFor(k, pr[1], pr[2])
        IN  /\ (Abs(num) > 10 * den) => Cardinality(hits) = 1
            /\ (Abs(num) <= 10 * den) => hits = {}
            /\ \A n \in hits :
                /\ (findings[n].faster_db = "MongoDB") <=> (num < 0)
                /\ findings[n].faster_db \in {"MongoDB", "PostgreSQL"}
                /\ 2 * Abs(findings[n].percent_tenths * den - Abs(num) * 10) <= den
    /\ \A n \in 1..Len(findings) :
        \E k \in 1..Len(results) : \E pr \in DefinedPairs(k) :
            n \in FindingsFor(k, pr[1], pr[2])

\* C10: (the claim) after _generate_findings has run, every (MongoDB test,
\* PostgreSQL test) pair of every category has a finding if and only if its
\* |diff_percent| > 10, the finding naming MongoDB as faster exactly when
\* diff_percent is negative, with magnitude |diff_percent|.
C10_FindingIffDiffAboveTen ==
    f_pc # "idle" => FindingsMatchDiffs

\* the same statement for the calls that return, which are the calls in which
\* no paired PostgreSQL test has mean 0: it holds
FindingsMatchDiffsOnReturn ==
    f_pc = "returned" => FindingsMatchDiffs

\* _generate_findings raised although a pair of an earlier category lies
\* above the threshold
FindingLostToZeroDivision ==
    /\ f_pc = "raised"
    /\ Len(results) = 2
    /\ results[1] = <<[name |-> "mongodb_find", mean |-> 8],
                      [name |-> "postgres_select", mean |-> 10]>>
    /\ results[2] = <<[name |-> "mongodb_find", mean |-> 5],
                      [name |-> "postgres_select", mean |-> 0]>>

\* ------------------------------------------------------------ connect claims
\* C12: when connect raises, every attempt of the call has failed and the
\* error raised is the exception of the last failed attempt itself: not a
\* generic error, and not the exception of an earlier attempt where it differs.
C12_RaisesLastAttemptsError ==
    c_pc = "raised" =>
        /\ Len(c_errs) = c_tries
        /\ c_raised = c_errs[Len(c_errs)]
        /\ c_raised \in ConnErrors

\* connect raised after attempts that failed with different exceptions
C12_Witness ==
    /\ c_pc = "raised"
    /\ c_errs = <<"timeout", "timeout", "auth">>
    /\ c_raised = "auth"

\* C13: the sleeps of one call are 1 s after the first failed attempt and 2 s
\* after the second (2^k after attempt k): one completed sleep per failed
\* attempt that was not the last, none after the third failure, none after a
\* success, and they never decrease.
C13_BackoffDoubles ==
    /\ c_waits \in {<<>>, <<1>>, <<1, 2>>}
    /\ \A k \in 1..Len(c_waits) : c_waits[k] = Pow2(k - 1)
    /\ \A k \in 1..(Len(c_waits) - 1) : c_waits[k] <= c_waits[k + 1]
    /\ (c_pc = "try" => Len(c_waits) = Len(c_errs))
    /\ (c_pc = "sleep" => Len(c_waits) = Len(c_errs) - 1)
    /\ (c_pc = "returned" => Len(c_waits) = c_tries - 1 /\ Len(c_waits) = Len(c_errs))
    /\ (c_pc = "raised" => c_waits = <<1, 2>> /\ Len(c_errs) = 3)

\* connect returned on its third attempt, having slept 1 s and 2 s
C13_Witness ==
    /\ c_pc = "returned"
    /\ c_tries = 3
    /\ c_waits = <<1, 2>>

\* C17: (the claim) after a connect call that raised, the importer's handle
\* fields have the values they had when the call started.
C17_FailedConnectKeepsFields ==
    c_pc = "raised" => c_fields = c_before

\* C14: a run with iterations = 0 takes no sample and ends by raising
\* (statistics.mean of an empty list) without returning a QueryResult; and no
\* QueryResult, of whatever run, holds an empty execution_times list.
C14_NoSamplesRaises ==
    /\ (iterations = 0 /\ b_pc \notin {"idle", "summarize"}) =>
          /\ b_pc = "raised"
          /\ b_error = "StatisticsError"
          /\ b_result = NoResult
          /\ b_begin = <<>>
    /\ (b_result # NoResult =>
          /\ Len(b_result[1].execution_times) >= 1
          /\ b_pc = "returned")
    /\ (b_pc = "returned" => b_result # NoResult /\ iterations >= 1)

\* a run of zero iterations has raised
C14_Witness ==
    /\ iterations = 0
    /\ b_pc = "raised"
    /\ execution_times = <<>>

\* C16: (the claim) a call with batch_size <= 0 raises, makes no bulk_write
\* call and returns no tuple.
C16_NonPositiveBatchSizeRaises ==
    batch_size <= 0 =>
        /\ l_pc # "returned"
        /\ l_calls = <<>>
        /\ l_result = NoResult

\* a call with a negative batch_size has returned (0, 0) although it had
\* valid documents and submitted none of them
NegativeBatchSizeReturnsEmptyOutcome ==
    /\ batch_size < 0
    /\ l_pc = "returned"
    /\ l_result = <<0, 0>>
    /\ NumValid >= 1
    /\ l_calls = <<>>

\* C18: (the claim) when the phase of a main() has failed, the error main()
\* ends with is the error that left its try body: the finally clause raises
\* nothing that replaces it, wherever the phase failed.
C18_CleanupKeepsOriginalError ==
    m_pc = "exit" /\ m_orig # NoError => m_error = m_orig

\* connect() has raised with no MongoClient ever assigned, and main() has
\* ended with the AttributeError of `importer.client.close()` instead
CleanupReplacesOriginalError ==
    /\ m_prog = "mongo"
    /\ m_pc = "exit"
    /\ m_orig \in ConnErrors
    /\ c_fields.client = None
    /\ m_error = "AttributeError"

\* C20: (the claim) an import whose documents hold one tweet_id twice, once
\* bulk_insert_documents has returned and nothing else has failed, goes on
\* without a fatal error and has counted a failed insert.
C20_DuplicateCountedNotFatal ==
    /\ m_prog = "mongo"
    /\ HasDuplicateIds(documents)
    /\ l_pc = "returned"
    /\ m_pc \in {"count_documents", "finally", "exit"}
    /\ m_orig \notin MainErrors
    => /\ m_orig = NoError
       /\ l_result[2] >= 1

\* both documents of one tweet_id were stored and counted as inserted, none
\* as failed, and the unique index then could not be built
DuplicateStoredThenIndexFails ==
    /\ m_prog = "mongo"
    /\ m_pc = "exit"
    /\ HasDuplicateIds(collection)
    /\ l_result = <<Len(documents), 0>>
    /\ m_error = "DuplicateKeyError"

\* whether execute_values has sent page `page` of the insert `stage`
PageWasSent(stage, page) ==
    \E k \in 1..Len(p_log) : p_log[k].stage = stage /\ p_log[k].page = page

\* whether the server has rejected a page
SomePageRejected ==
    \E k \in 1..Len(p_log) : p_log[k].outcome = "rejected"

\* C19: (the claim) when the PostgreSQL import has ended after the server
\* rejected a page, every page of every insert stage was still sent and the
\* rejection did not abort the import.
C19_RejectedPageDoesNotAbort ==
    m_prog = "postgres" /\ m_pc = "exit" /\ SomePageRejected =>
        /\ \A s \in StageNames, p \in 1..p_pages : PageWasSent(s, p)
        /\ m_error = NoError

\* the first page of the users insert was rejected: main() has ended with
\* that error, the second page of users and the two later inserts never sent
RejectedPageAbortsImport ==
    /\ m_prog = "postgres"
    /\ m_pc = "exit"
    /\ p_pages = 2
    /\ p_log = <<[stage |-> "users", page |-> 1, outcome |-> "rejected"]>>
    /\ m_error = "IntegrityError"

\* how many times close() was called on the driver object id
TimesClosed(id) ==
    Cardinality({k \in 1..Len(h_closed) : h_closed[k] = id})

\* C11: (the claim) when a main() has ended, on any path, every driver
\* object it opened has been closed exactly once: none is open, none was
\* closed twice.
C11_EveryHandleClosedOnce ==
    m_pc = "exit" =>
        /\ c_open = {}
        /\ \A id \in 1..(c_next - 1) : TimesClosed(id) = 1

\* psycopg2.connect raised in DatabaseBenchmark.__init__: the benchmark has
\* ended with its MongoClient open and close() never called
MongoClientLeftOpen ==
    /\ m_prog = "bench"
    /\ m_pc = "exit"
    /\ ~m_bound
    /\ c_open = {1}
    /\ h_closed = <<>>

\* C15: (the claim) when the benchmark main() has ended with an error, the
\* run has not written ./json/benchmark_report.json.
C15_NoReportOnFatalPath ==
    m_prog = "bench" /\ m_pc = "exit" /\ m_error # NoError => ~report_written

\* generate_visualizations raised after the report was written: main() has
\* ended with that error and the report file is there
ReportWrittenThenFailed ==
    /\ m_prog = "bench"
    /\ m_pc = "exit"
    /\ m_orig \in ReportErrors
    /\ m_error = m_orig
    /\ report_written

====
